---- MODULE Spec2Model ----
(***************************************************************************)
(* Model of src/v2/tag.rs of the stivale crate: the trailing-array tags    *)
(* (memory map, modules, SMP, EDID) with their slice views and iterators,  *)
(* the derived scalars (framebuffer size, module size, memory map entry    *)
(* end address), the firmware flags, and the walk of the tag chain over    *)
(* StivaleTagHeader records.                                               *)
(***************************************************************************)
EXTENDS Integers, Sequences, FiniteSets, TLC

\* ------------------------------------------------------------------------
\* Bounds
\* ------------------------------------------------------------------------
\* Largest value of a tag's count field (entries_len, module_len, ...).
MaxCount == 2
\* Number of iterator variables a caller holds at the same time.
NumIters == 2
\* Contents of one array element, abstracted to a small value.
Elem == 0..1

VARIABLES tag, tag0, its, hist, view, build, call,
          mem, order, root, target, cur, pc, visited, result

iterVars == <<tag, tag0, its, hist, view>>
arithVars == <<build, call>>
chainVars == <<mem, order, root, target, cur, pc, visited, result>>
vars == <<tag, tag0, its, hist, view, build, call,
          mem, order, root, target, cur, pc, visited, result>>

\* ------------------------------------------------------------------------
\* Option<&T>
\* ------------------------------------------------------------------------
NoCall == [some |-> "nocall", val |-> 0]
None == [some |-> "none", val |-> 0]
Some(e) == [some |-> "some", val |-> e]

\* All sequences over S of length exactly n.
SeqsOfLen(S, n) == [1..n -> S]

\* ------------------------------------------------------------------------
\* The four trailing-array tags.  The array field is the memory that
\* follows the fixed header; only the first count elements belong to the tag.
\* ------------------------------------------------------------------------
StivaleMemoryMapTag ==
    [kind : {"memmap"}, entries_len : 0..MaxCount, entry_array : SeqsOfLen(Elem, MaxCount)]

StivaleModuleTag ==
    [kind : {"module"}, module_len : 0..MaxCount, modules_array : SeqsOfLen(Elem, MaxCount)]

StivaleSmpTag ==
    [kind : {"smp"}, cpu_count : 0..MaxCount, smp_info_array : SeqsOfLen(Elem, MaxCount)]

StivaleEdidInfoTag ==
    [kind : {"edid"}, edid_len : 0..MaxCount, info_array : SeqsOfLen(Elem, MaxCount)]

\* core::slice::from_raw_parts(ptr, len): the first len elements at ptr.
from_raw_parts(ptr, len) == SubSeq(ptr, 1, len)

MemoryMapTag_as_slice(t) == from_raw_parts(t.entry_array, t.entries_len)

ModuleTag_as_slice(t) == from_raw_parts(t.modules_array, t.module_len)

\* Variant: the bootstrap processor's entry left out of the count.
SmpTag_as_slice_short(t) == from_raw_parts(t.smp_info_array, t.cpu_count - 1)

SmpTag_as_slice(t) == from_raw_parts(t.smp_info_array, t.cpu_count)

EdidInfoTag_as_slice(t) == from_raw_parts(t.info_array, t.edid_len)

\* Variant: the cursor starts at the second element.
MemoryMapTag_iter_from_one(t) == [kind |-> "memmap", current |-> 1]

MemoryMapTag_iter(t) == [kind |-> "memmap", current |-> 0]

ModuleTag_iter(t) == [kind |-> "module", current |-> 0]

\* Variant: the element is returned but the cursor is not advanced.
MemoryMapIter_next_stuck(it, t) ==
    IF it.current < t.entries_len
    THEN [it |-> it, ret |-> Some(MemoryMapTag_as_slice(t)[it.current + 1])]
    ELSE [it |-> it, ret |-> None]

\* Iterator::next: the new iterator and the returned Option.
MemoryMapIter_next(it, t) ==
    IF it.current < t.entries_len
    THEN [it |-> [it EXCEPT !.current = @ + 1],
          ret |-> Some(MemoryMapTag_as_slice(t)[it.current + 1])]
    ELSE [it |-> it, ret |-> None]

\* Variant: an exhausted iterator rewinds its cursor.
ModuleIter_next_rewind(it, t) ==
    IF it.current < t.module_len
    THEN [it |-> [it EXCEPT !.current = @ + 1],
          ret |-> Some(ModuleTag_as_slice(t)[it.current + 1])]
    ELSE [it |-> [it EXCEPT !.current = 0], ret |-> None]

ModuleIter_next(it, t) ==
    IF it.current < t.module_len
    THEN [it |-> [it EXCEPT !.current = @ + 1],
          ret |-> Some(ModuleTag_as_slice(t)[it.current + 1])]
    ELSE [it |-> it, ret |-> None]

\* ------------------------------------------------------------------------
\* Dispatch on the kind of the tag under test
\* ------------------------------------------------------------------------
Count(t) ==
    CASE t.kind = "memmap" -> t.entries_len
      [] t.kind = "module" -> t.module_len
      [] t.kind = "smp" -> t.cpu_count
      [] t.kind = "edid" -> t.edid_len

AsSliceOf(t) ==
    CASE t.kind = "memmap" -> MemoryMapTag_as_slice(t)
      [] t.kind = "module" -> ModuleTag_as_slice(t)
      [] t.kind = "smp" -> SmpTag_as_slice(t)
      [] t.kind = "edid" -> EdidInfoTag_as_slice(t)

\* The memory that follows the fixed header of the tag.
ArrayOf(t) ==
    CASE t.kind = "memmap" -> t.entry_array
      [] t.kind = "module" -> t.modules_array
      [] t.kind = "smp" -> t.smp_info_array
      [] t.kind = "edid" -> t.info_array

\* Only the memory map tag and the module tag declare iter().
HasIter(t) == t.kind \in {"memmap", "module"}

IterOf(t) ==
    CASE t.kind = "memmap" -> MemoryMapTag_iter(t)
      [] t.kind = "module" -> ModuleTag_iter(t)

NextOf(it, t) ==
    CASE it.kind = "memmap" -> MemoryMapIter_next(it, t)
      [] it.kind = "module" -> ModuleIter_next(it, t)

\* ------------------------------------------------------------------------
\* Fixed-width unsigned integers.  A value is the little-endian sequence of
\* its bytes (limbs of 8 bits), so that 64-bit values and their overflow are
\* computed exactly.
\* ------------------------------------------------------------------------
LimbBase == 2 ^ 8

\* Bytes of a u64 and of a usize (64-bit target).
U64Bytes == 64 \div 8

UsizeBytes == 64 \div 8

\* The w-byte value of the integer n, 0 <= n < 2^31.
ToLimbs(n, w) ==
    [k \in 1..w |-> IF k <= 4 THEN (n \div (LimbBase ^ (k - 1))) % LimbBase ELSE 0]

Pad(x, w) == [k \in 1..w |-> IF k <= Len(x) THEN x[k] ELSE 0]

Trunc(x, w) == SubSeq(x, 1, w)

\* No byte above the first w is set: the value fits in w bytes.
Fits(x, w) == \A k \in (w + 1)..Len(x) : x[k] = 0

Max(a, b) == IF a > b THEN a ELSE b

\* Equality of the numbers two byte sequences stand for.
BigEq(x, y) == Pad(x, Max(Len(x), Len(y))) = Pad(y, Max(Len(x), Len(y)))

RECURSIVE AddFrom(_, _, _, _)
AddFrom(a, b, k, carry) ==
    IF k > Len(a) THEN <<carry>>
    ELSE LET d == a[k] + b[k] + carry
         IN <<d % LimbBase>> \o AddFrom(a, b, k + 1, d \div LimbBase)

\* The exact sum, one byte longer than the longer operand.
BigAdd(x, y) ==
    LET w == Max(Len(x), Len(y)) IN AddFrom(Pad(x, w), Pad(y, w), 1, 0)

RECURSIVE SubFrom(_, _, _, _)
SubFrom(a, b, k, borrow) ==
    IF k > Len(a) THEN <<borrow>>
    ELSE LET d == a[k] - b[k] - borrow
         IN <<d % LimbBase>> \o SubFrom(a, b, k + 1, IF d < 0 THEN 1 ELSE 0)

\* x - y modulo 2^(8w), followed by the borrow (1 when x < y).
BigSub(x, y) ==
    LET w == Max(Len(x), Len(y)) IN SubFrom(Pad(x, w), Pad(y, w), 1, 0)

BigGe(x, y) == BigSub(x, y)[Max(Len(x), Len(y)) + 1] = 0

RECURSIVE MulLimbFrom(_, _, _, _)
MulLimbFrom(a, d, k, carry) ==
    IF k > Len(a) THEN <<carry>>
    ELSE LET p == a[k] * d + carry
         IN <<p % LimbBase>> \o MulLimbFrom(a, d, k + 1, p \div LimbBase)

RECURSIVE MulFrom(_, _, _)
MulFrom(a, b, k) ==
    IF k > Len(b) THEN Pad(<<>>, Len(a) + Len(b))
    ELSE Trunc(BigAdd(Pad(Pad(<<>>, k - 1) \o MulLimbFrom(a, b[k], 1, 0), Len(a) + Len(b)),
                      MulFrom(a, b, k + 1)),
               Len(a) + Len(b))

\* The exact product, Len(x) + Len(y) bytes.
BigMul(x, y) == MulFrom(x, y, 1)

RECURSIVE And8(_, _, _)
And8(x, y, n) ==
    IF n = 0 THEN 0
    ELSE 2 * And8(x \div 2, y \div 2, n - 1) + (IF x % 2 = 1 /\ y % 2 = 1 THEN 1 ELSE 0)

\* Bitwise AND of two values of the same width.
BitAnd(x, y) == [k \in 1..Len(x) |-> And8(x[k], y[k], 8)]

\* Result of an arithmetic expression: a value, or the overflow panic.
Ok(v) == [status |-> "ok", val |-> v]

Panic == [status |-> "panic", val |-> <<>>]

\* The call has not been made yet.
Pending == [status |-> "pending", val |-> <<>>]

\* Rust's + on w-byte unsigned integers: on overflow it panics in a build
\* with overflow checks and wraps in a build without.
checked_add(x, y, w, checks) ==
    LET d == BigAdd(x, y)
    IN IF Fits(d, w) \/ ~checks THEN Ok(Trunc(d, w)) ELSE Panic

\* Rust's - on w-byte unsigned integers.
checked_sub(x, y, w, checks) ==
    LET d == BigSub(x, y)
    IN IF d[w + 1] = 0 \/ ~checks THEN Ok(Trunc(d, w)) ELSE Panic

\* Rust's * on w-byte unsigned integers.
checked_mul(x, y, w, checks) ==
    LET d == BigMul(x, y)
    IN IF Fits(d, w) \/ ~checks THEN Ok(Trunc(d, w)) ELSE Panic

\* ------------------------------------------------------------------------
\* Derived scalars
\* ------------------------------------------------------------------------
\* Variant: the last address of the region instead of the address after it.
MemoryMapEntry_end_address_inclusive(e, checks) ==
    LET r == checked_add(e.base, e.length, U64Bytes, checks)
    IN IF r.status = "ok" THEN checked_sub(r.val, ToLimbs(1, U64Bytes), U64Bytes, FALSE) ELSE r

\* self.base + self.length
MemoryMapEntry_end_address(e, checks) ==
    checked_add(e.base, e.length, U64Bytes, checks)

\* Variant: the operands of the subtraction exchanged.
Module_size_swapped(m, checks) ==
    checked_sub(m.start, m.end, U64Bytes, checks)

\* self.end - self.start
Module_size(m, checks) ==
    checked_sub(m.end, m.start, U64Bytes, checks)

\* Variant: the product taken on the u16 fields, without widening.
FramebufferTag_size_u16(f, checks) ==
    LET ph == checked_mul(ToLimbs(f.framebuffer_pitch, 2), ToLimbs(f.framebuffer_height, 2),
                          2, checks)
    IN IF ph.status = "panic" THEN Panic
       ELSE checked_mul(ph.val, ToLimbs(f.framebuffer_bpp \div 8, 2), 2, checks)

\* pitch as usize * height as usize * (bpp as usize / 8); the fields are u16.
FramebufferTag_size(f, checks) ==
    LET pitch == ToLimbs(f.framebuffer_pitch, UsizeBytes)
        height == ToLimbs(f.framebuffer_height, UsizeBytes)
        bytespp == ToLimbs(f.framebuffer_bpp \div 8, UsizeBytes)
        ph == checked_mul(pitch, height, UsizeBytes, checks)
    IN IF ph.status = "panic" THEN Panic
       ELSE checked_mul(ph.val, bytespp, UsizeBytes, checks)

\* StivaleFirmwareTagFlags: const UEFI = 0x00; const BIOS = 0x01;
UEFI == ToLimbs(0, U64Bytes)

BIOS == ToLimbs(1, U64Bytes)

\* bitflags' contains(): every bit of other is set in self.
contains(bits, other) == BitAnd(bits, other) = other

\* ------------------------------------------------------------------------
\* State: one tag, NumIters iterator variables, the last slice taken.
\* hist[i] records what iterator i has done since it was made: the cursor it
\* started at, the elements it yielded, its last result, and whether another
\* iterator had already advanced when iter() made it.
\* ------------------------------------------------------------------------
Iters == 1..NumIters

NoIter == [kind |-> "none", current |-> 0]

NoHist == [start |-> 0, out |-> <<>>, ret |-> NoCall, late |-> FALSE]

NoView == [taken |-> FALSE, slice |-> <<>>]

Live(i) == its[i].kind # "none"

\* Values of the variables a specification does not use.
NoTag == [kind |-> "none"]

NoBuild == [overflow_checks |-> FALSE]

NoCallYet == [op |-> "none", args |-> <<>>, res |-> Pending]

NotYet == [found |-> "notyet", addr |-> 0]

NoChain ==
    /\ mem = <<>>
    /\ order = <<>>
    /\ root = 0
    /\ target = 0
    /\ cur = 0
    /\ pc = "none"
    /\ visited = <<>>
    /\ result = NotYet

InitIter ==
    /\ tag \in StivaleMemoryMapTag \cup StivaleModuleTag \cup StivaleSmpTag
                  \cup StivaleEdidInfoTag
    /\ tag0 = tag
    /\ its = [i \in Iters |-> NoIter]
    /\ hist = [i \in Iters |-> NoHist]
    /\ view = NoView
    /\ build = NoBuild
    /\ call = NoCallYet
    /\ NoChain

\* let it_i = tag.iter();
Iter(i) ==
    /\ HasIter(tag)
    /\ its' = [its EXCEPT ![i] = IterOf(tag)]
    /\ hist' = [hist EXCEPT ![i] =
                  [NoHist EXCEPT !.start = IterOf(tag).current,
                                 !.late = \E j \in Iters : Live(j) /\ its[j].current > 0]]
    /\ UNCHANGED <<tag, tag0, view, arithVars, chainVars>>

\* let it_j = it_i.clone();   (#[derive(Clone)])
CloneIter(i, j) ==
    /\ i # j
    /\ Live(i)
    /\ its' = [its EXCEPT ![j] = its[i]]
    /\ hist' = [hist EXCEPT ![j] = [NoHist EXCEPT !.start = its[i].current]]
    /\ UNCHANGED <<tag, tag0, view, arithVars, chainVars>>

\* Variant: one cursor shared by all the iterators of the tag.
IterNext_shared(i) ==
    /\ Live(i)
    /\ LET r == NextOf(its[i], tag) IN
         /\ its' = [j \in Iters |-> IF Live(j) THEN r.it ELSE its[j]]
         /\ hist' = [hist EXCEPT ![i] =
                       [@ EXCEPT !.ret = r.ret,
                                 !.out = IF r.ret.some = "some"
                                         THEN Append(@, r.ret.val) ELSE @]]
    /\ UNCHANGED <<tag, tag0, view, arithVars, chainVars>>

\* it_i.next();
IterNext(i) ==
    /\ Live(i)
    /\ LET r == NextOf(its[i], tag) IN
         /\ its' = [its EXCEPT ![i] = r.it]
         /\ hist' = [hist EXCEPT ![i] =
                       [@ EXCEPT !.ret = r.ret,
                                 !.out = IF r.ret.some = "some"
                                         THEN Append(@, r.ret.val) ELSE @]]
    /\ UNCHANGED <<tag, tag0, view, arithVars, chainVars>>

\* tag.as_slice();
AsSlice ==
    /\ view' = [taken |-> TRUE, slice |-> AsSliceOf(tag)]
    /\ UNCHANGED <<tag, tag0, its, hist, arithVars, chainVars>>

NextIter ==
    \/ \E i \in Iters : Iter(i)
    \/ \E i, j \in Iters : CloneIter(i, j)
    \/ \E i \in Iters : IterNext(i)
    \/ AsSlice

SpecIter == InitIter /\ [][NextIter]_vars

\* ------------------------------------------------------------------------
\* Properties of the iterators (checked under SpecIter)
\* ------------------------------------------------------------------------
Min(a, b) == IF a < b THEN a ELSE b

\* Iterator i started at cursor 0: made by iter(), or a copy of such an
\* iterator taken before its first next().
Fresh(i) == Live(i) /\ hist[i].start = 0

\* C1: a fresh iterator of a tag with count N returns as_slice()[0], ...,
\* as_slice()[N-1] on its first N next() calls, in ascending index order and
\* each once, and the (N+1)-th call is the first to return None (the first
\* call when N = 0).
C1_FreshIterYieldsSliceInOrder ==
    \A i \in Iters :
        Fresh(i) =>
            LET n == Count(tag)
                k == Len(hist[i].out)
                s == AsSliceOf(tag)
            IN /\ Len(s) = n
               /\ k <= n
               /\ hist[i].out = SubSeq(s, 1, k)
               /\ hist[i].ret = None => k = n
               /\ hist[i].ret = NoCall => k = 0
               /\ hist[i].ret.some = "some" => (k > 0 /\ hist[i].ret = Some(s[k]))

C1_Witness ==
    \E i \in Iters :
        /\ tag.kind = "memmap" /\ tag.entries_len = 2
        /\ tag.entry_array[1] # tag.entry_array[2]
        /\ Fresh(i)
        /\ hist[i].ret = None
        /\ hist[i].out = <<tag.entry_array[1], tag.entry_array[2]>>

\* Every iter() call makes an iterator whose cursor is 0.
C2_IterStartsAtZero == \A i \in Iters : Iter(i) => its'[i].current = 0

\* The tag is as the bootloader wrote it, and any two fresh iterators have
\* yielded the same elements as far as both have got.
C2_SameSequence ==
    /\ tag = tag0
    /\ \A i, j \in Iters :
           (Fresh(i) /\ Fresh(j)) =>
               /\ \A k \in 1..Min(Len(hist[i].out), Len(hist[j].out)) :
                      hist[i].out[k] = hist[j].out[k]
               /\ (hist[i].ret = None /\ hist[j].ret = None) => hist[i].out = hist[j].out

\* C2: iter() on the same tag at any time, also after an earlier iterator was
\* partly or fully consumed, starts at cursor 0 and yields the same sequence
\* as every other fresh iterator of that tag; iter() and next() leave the
\* tag's count and elements as they were.
C2_RestartRepeatable == [][C2_IterStartsAtZero]_vars /\ []C2_SameSequence

C2_Witness ==
    \E i, j \in Iters :
        /\ i # j
        /\ Count(tag) >= 2
        /\ Fresh(i) /\ Fresh(j)
        /\ hist[j].late
        /\ hist[i].ret = None /\ hist[j].ret = None
        /\ Len(hist[j].out) = Count(tag)
        /\ hist[i].out = hist[j].out

\* A step changes at most one iterator, and never the tag.
C3_IterStepFrame ==
    /\ tag' = tag
    /\ Cardinality({i \in Iters : its'[i] # its[i] \/ hist'[i] # hist[i]}) <= 1

\* Every iterator has yielded the elements from its starting cursor to its
\* cursor, and is exhausted only at count.
C3_EachYieldsItsRange ==
    \A i \in Iters :
        Live(i) =>
            /\ hist[i].out = SubSeq(AsSliceOf(tag), hist[i].start + 1, its[i].current)
            /\ hist[i].ret = None => its[i].current = Count(tag)

\* C3: a next() call on one iterator (or on a clone) changes only that
\* iterator's cursor, not any other iterator nor the tag, so under any
\* interleaving every iterator yields the elements from its starting cursor
\* up to count, in order.
C3_IteratorsIndependent == [][C3_IterStepFrame]_vars /\ []C3_EachYieldsItsRange

C3_Witness ==
    \E i, j \in Iters :
        /\ i # j
        /\ Count(tag) >= 2
        /\ hist[i].start = 0 /\ hist[j].start = 1
        /\ hist[i].ret = None /\ hist[j].ret = None
        /\ Len(hist[i].out) = Count(tag)
        /\ Len(hist[j].out) = Count(tag) - 1

C9_CursorInBounds ==
    \A i \in Iters : Live(i) => (0 <= its[i].current /\ its[i].current <= Count(tag))

\* Iterator i returned from a next() call in this step.
Called(i) ==
    /\ hist'[i].ret # NoCall
    /\ <<hist'[i].out, hist'[i].ret, its'[i].current>>
           # <<hist[i].out, hist[i].ret, its[i].current>>

C9_NextStep ==
    \A i \in Iters :
        Called(i) =>
            /\ (hist'[i].ret = None) <=> (its[i].current = Count(tag))
            /\ (its[i].current = Count(tag)) => its'[i].current = its[i].current
            /\ (hist[i].ret = None) => hist'[i].ret = None

\* C9: in every state reached by next() calls 0 <= cursor <= count; next()
\* returns None exactly when the cursor equals count, and such a call leaves
\* the cursor where it is, so after a None every later call returns None.
C9_ExhaustionIsFinal == []C9_CursorInBounds /\ [][C9_NextStep]_vars

C9_Witness ==
    \E i \in Iters :
        /\ Live(i)
        /\ Count(tag) >= 1
        /\ its[i].current = Count(tag)
        /\ hist[i].ret = None
        /\ hist[i].out = AsSliceOf(tag)

\* C8 as stated: each of the four trailing-array tag kinds offers both the
\* contiguous view and an iterator of its own over the count elements.
C8_EveryKindHasViewAndIter ==
    /\ ENABLED AsSlice
    /\ \A i \in Iters : ENABLED Iter(i)

\* C8 amended: each of the four kinds offers the contiguous view of exactly
\* its count elements, in layout order; iter() is offered by the memory map
\* tag and the module tag only.
C8_ViewForAllIterForTwo ==
    /\ ENABLED AsSlice
    /\ view.taken =>
           /\ Len(view.slice) = Count(tag)
           /\ \A k \in 1..Count(tag) : view.slice[k] = ArrayOf(tag)[k]
    /\ \A i \in Iters : (ENABLED Iter(i)) <=> (tag.kind \in {"memmap", "module"})

C8_Witness ==
    /\ tag.kind \in {"smp", "edid"}
    /\ Count(tag) >= 1 /\ Count(tag) < Len(ArrayOf(tag))
    /\ view.taken
    /\ Len(view.slice) = Count(tag)

\* ------------------------------------------------------------------------
\* The derived scalars and the firmware flags as a state machine: the build
\* fixes whether overflow is checked; a behaviour is one call on field values
\* drawn from the samples; call holds its arguments and, once made, its result.
\* ------------------------------------------------------------------------
\* Small values 0..MaxSmall are part of every sample set.
MaxSmall == 2

TopBit == [k \in 1..U64Bytes |-> IF k = U64Bytes THEN 128 ELSE 0]

AllOnes == [k \in 1..U64Bytes |-> 255]

\* 2^64 - 4096
TopPage == [k \in 1..U64Bytes |-> IF k = 1 THEN 0 ELSE IF k = 2 THEN 240 ELSE 255]

U64Samples ==
    {ToLimbs(n, U64Bytes) : n \in (0..MaxSmall) \cup {4096, 1048576, 1064960}}
        \cup {TopBit, TopPage, AllOnes}

U16Samples == (0..MaxSmall) \cup {7, 8, 9, 24, 32, 768, 1024, 65535}

\* The calls a kernel can make, each with its arguments.
Calls ==
    [op : {"end_address", "module_size"}, args : U64Samples \X U64Samples, res : {Pending}]
        \cup [op : {"framebuffer_size"}, args : U16Samples \X U16Samples \X U16Samples,
               res : {Pending}]
        \cup [op : {"firmware_flags"}, args : {<<bits>> : bits \in U64Samples}, res : {Pending}]

InitArith ==
    /\ build \in [overflow_checks : BOOLEAN]
    /\ call \in Calls
    /\ tag = NoTag
    /\ tag0 = NoTag
    /\ its = <<>>
    /\ hist = <<>>
    /\ view = NoView
    /\ NoChain

\* entry.end_address() with base = args[1], length = args[2]
CallEndAddress ==
    /\ call.op = "end_address" /\ call.res = Pending
    /\ call' = [call EXCEPT !.res =
                  MemoryMapEntry_end_address([base |-> call.args[1], length |-> call.args[2]],
                                             build.overflow_checks)]
    /\ UNCHANGED <<build, iterVars, chainVars>>

\* module.size() with start = args[1], end = args[2]
CallModuleSize ==
    /\ call.op = "module_size" /\ call.res = Pending
    /\ call' = [call EXCEPT !.res =
                  Module_size([start |-> call.args[1], end |-> call.args[2]],
                              build.overflow_checks)]
    /\ UNCHANGED <<build, iterVars, chainVars>>

\* framebuffer.size() with pitch = args[1], height = args[2], bpp = args[3]
CallFramebufferSize ==
    /\ call.op = "framebuffer_size" /\ call.res = Pending
    /\ call' = [call EXCEPT !.res =
                  FramebufferTag_size([framebuffer_pitch |-> call.args[1],
                                       framebuffer_height |-> call.args[2],
                                       framebuffer_bpp |-> call.args[3]],
                                      build.overflow_checks)]
    /\ UNCHANGED <<build, iterVars, chainVars>>

\* firmware.flags.contains(UEFI) and firmware.flags.contains(BIOS), flags = args[1]
CallFirmwareFlags ==
    /\ call.op = "firmware_flags" /\ call.res = Pending
    /\ call' = [call EXCEPT !.res =
                  Ok([uefi |-> contains(call.args[1], UEFI),
                      bios |-> contains(call.args[1], BIOS)])]
    /\ UNCHANGED <<build, iterVars, chainVars>>

NextArith ==
    \/ CallEndAddress
    \/ CallModuleSize
    \/ CallFramebufferSize
    \/ CallFirmwareFlags

SpecArith == InitArith /\ [][NextArith]_vars

\* ------------------------------------------------------------------------
\* Properties of the derived scalars (checked under SpecArith)
\* ------------------------------------------------------------------------
\* C5 as stated: end_address() returns base + length for all 64-bit values
\* of base and length.
C5_EndIsSumForAllValues ==
    (call.op = "end_address" /\ call.res # Pending) =>
        /\ call.res.status = "ok"
        /\ BigEq(call.res.val, BigAdd(call.args[1], call.args[2]))

\* C5 amended: end_address() returns base + length whenever the sum is at
\* most 2^64 - 1; when it is larger the call panics in a build with overflow
\* checks and returns the sum modulo 2^64 in a build without.
C5_EndIsSumUnlessOverflow ==
    (call.op = "end_address" /\ call.res # Pending) =>
        LET sum == BigAdd(call.args[1], call.args[2])
        IN IF sum[U64Bytes + 1] = 0
           THEN /\ call.res.status = "ok"
                /\ BigEq(call.res.val, sum)
                /\ BigSub(call.res.val, call.args[1]) = call.args[2] \o <<0>>
           ELSE IF build.overflow_checks
                THEN call.res.status = "panic"
                ELSE /\ call.res.status = "ok"
                     /\ call.res.val = SubSeq(sum, 1, U64Bytes)

C5_Witness ==
    /\ call.op = "end_address"
    /\ call.args = <<TopBit, ToLimbs(4096, U64Bytes)>>
    /\ call.res = Ok([k \in 1..U64Bytes |-> IF k = 2 THEN 16 ELSE IF k = 8 THEN 128 ELSE 0])

C7_ModuleSizeIsDifference ==
    (call.op = "module_size" /\ call.res # Pending /\ BigGe(call.args[2], call.args[1])) =>
        /\ call.res.status = "ok"
        /\ Len(call.res.val) = U64Bytes
        /\ \A k \in 1..U64Bytes : call.res.val[k] \in 0..(LimbBase - 1)
        /\ BigAdd(call.args[1], call.res.val) = call.args[2] \o <<0>>
        /\ call.args = <<ToLimbs(1048576, U64Bytes), ToLimbs(1064960, U64Bytes)>> =>
               call.res.val = ToLimbs(16384, U64Bytes)

C7_Witness ==
    /\ call.op = "module_size"
    /\ call.args = <<ToLimbs(1048576, U64Bytes), ToLimbs(1064960, U64Bytes)>>
    /\ call.res = Ok(ToLimbs(16384, U64Bytes))

\* C10: for every 64-bit flags value, the UEFI flag (bits 0x00) and the
\* BIOS flag (bits 0x01) are never both reported as contained in it.
C10_NeverBothContained ==
    (call.op = "firmware_flags" /\ call.res # Pending) =>
        ~(call.res.val.uefi /\ call.res.val.bios)

\* ------------------------------------------------------------------------
\* The tag chain and the walk that finds a tag by identifier.  Records live
\* at nonzero addresses; next = 0 ends the chain.  order is the chain as the
\* bootloader linked it, mem the memory the walk reads.
\* ------------------------------------------------------------------------
\* Longest chain.
MaxChain == 3

Addrs == 1..MaxChain

Identifiers == 1..3

StivaleTagHeader == [identifier : Identifiers, next : Addrs \cup {0}]

\* Sequences of distinct addresses: the link orders of acyclic chains.
LinkOrders ==
    UNION {{o \in [1..n -> Addrs] : \A j, k \in 1..n : j # k => o[j] # o[k]} : n \in 0..MaxChain}

Range(f) == {f[k] : k \in DOMAIN f}

PosIn(o, a) == CHOOSE k \in DOMAIN o : o[k] = a

\* Memory holding the chain linked in order o with identifiers ids.
ChainMemory(o, ids) ==
    [a \in Range(o) |->
        [identifier |-> ids[PosIn(o, a)],
         next |-> IF PosIn(o, a) < Len(o) THEN o[PosIn(o, a) + 1] ELSE 0]]

Found(a) == [found |-> "found", addr |-> a]

NotFound == [found |-> "notfound", addr |-> 0]

InitChain ==
    /\ order \in LinkOrders
    /\ \E ids \in [DOMAIN order -> Identifiers] : mem = ChainMemory(order, ids)
    /\ root = IF Len(order) = 0 THEN 0 ELSE order[1]
    /\ target \in Identifiers
    /\ cur = root
    /\ pc = "walk"
    /\ visited = <<>>
    /\ result = NotYet
    /\ tag = NoTag
    /\ tag0 = NoTag
    /\ its = <<>>
    /\ hist = <<>>
    /\ view = NoView
    /\ build = NoBuild
    /\ call = NoCallYet

\* The sentinel is reached: no record carries the identifier.
WalkEnd ==
    /\ pc = "walk"
    /\ cur = 0
    /\ result' = NotFound
    /\ pc' = "done"
    /\ UNCHANGED <<mem, order, root, target, cur, visited, iterVars, arithVars>>

\* Variant: the identifier of the root record is not compared.
WalkMatch_skip_root ==
    /\ pc = "walk"
    /\ cur # 0
    /\ cur # root
    /\ mem[cur].identifier = target
    /\ visited' = Append(visited, cur)
    /\ result' = Found(cur)
    /\ pc' = "done"
    /\ UNCHANGED <<mem, order, root, target, cur, iterVars, arithVars>>

\* The record at cur carries the identifier: it is the result.
WalkMatch ==
    /\ pc = "walk"
    /\ cur # 0
    /\ mem[cur].identifier = target
    /\ visited' = Append(visited, cur)
    /\ result' = Found(cur)
    /\ pc' = "done"
    /\ UNCHANGED <<mem, order, root, target, cur, iterVars, arithVars>>

\* The record at cur carries another identifier: follow its next link.
WalkAdvance ==
    /\ pc = "walk"
    /\ cur # 0
    /\ mem[cur].identifier # target
    /\ visited' = Append(visited, cur)
    /\ cur' = mem[cur].next
    /\ UNCHANGED <<mem, order, root, target, pc, result, iterVars, arithVars>>

NextChain ==
    \/ WalkEnd
    \/ WalkMatch
    \/ WalkAdvance

\* The walk is a loop that runs to completion.
SpecChain == InitChain /\ [][NextChain]_vars /\ WF_vars(NextChain)

\* ------------------------------------------------------------------------
\* Properties of the walk (checked under SpecChain)
\* ------------------------------------------------------------------------
\* Positions of the chain whose record carries the target identifier.
Matches == {k \in DOMAIN order : mem[order[k]].identifier = target}

\* The walk has visited a prefix of the link order; a finished walk returned
\* the first match, or Not Found after the whole chain.
C4_WalkState ==
    /\ mem \in [Range(order) -> StivaleTagHeader]
    /\ Len(visited) <= Len(order)
    /\ visited = SubSeq(order, 1, Len(visited))
    /\ pc = "done" =>
          /\ (result = NotFound) <=> (Matches = {})
          /\ (result = NotFound) => visited = order
          /\ (result # NotFound) =>
                \E k \in Matches :
                    /\ \A j \in Matches : k <= j
                    /\ result = Found(order[k])
                    /\ Len(visited) = k

\* C4: on an acyclic chain of N records ended by next = 0 the walk from the
\* root follows the next links in link order, ends after visiting at most N
\* records, returns the first record in link order that carries the target
\* identifier, and returns Not Found exactly when no record carries it.
C4_WalkFindsFirstMatch == []C4_WalkState /\ <>(pc = "done")

C4_Witness ==
    /\ pc = "done"
    /\ Len(order) = 3
    /\ order[1] > order[2]
    /\ Cardinality(Matches) = 2
    /\ result = Found(order[2])
    /\ Len(visited) = 2

====
